---- MODULE Spec2Model ----
(***************************************************************************)
(* Model of the K-1008 image converter (kimg.c, ihex.c, pap.c): the        *)
(* pipeline of main() from the palette reader to the record serializers.   *)
(* Files are sequences of lines; a line is a record whose field t is what  *)
(* the sscanf / strncmp / strstr of each reader sees in it.                *)
(***************************************************************************)
EXTENDS Integers, Sequences, FiniteSets, TLC

(***************************************************************************)
(* Program constants.                                                      *)
(***************************************************************************)
MAX_PALETTE_SIZE == 16
MAX_COL_BYTES == 40
MAX_ROWS == 200
MAX_IMAGE_SIZE == MAX_COL_BYTES * 8 * MAX_ROWS
MAX_CARDS == 4
CARD_MEMORY_SIZE == 8192
MIN_BASE_ADDRESS == 8192
MAX_BASE_ADDRESS == 40960
IHEX_BYTES_PER_LINE == 32
PAP_BYTES_PER_LINE == 24

(***************************************************************************)
(* Bounds of the model.                                                    *)
(***************************************************************************)
\* heights of the images that are converted and serialized: 1..MaxHeight
MaxHeight == 2
\* pixel tokens on one line of the header_data block
TokensPerLine == 16
\* and on a line of the longest pixel blocks
LongLine == 4000

(***************************************************************************)
(* Integer helpers: C's fixed-width arithmetic.                            *)
(***************************************************************************)
U8(n) == n % 256
U16(n) == n % 65536
Min(a, b) == IF a < b THEN a ELSE b
Pow2(n) == IF n = 0 THEN 1 ELSE IF n = 1 THEN 2 ELSE IF n = 2 THEN 4
           ELSE IF n = 3 THEN 8 ELSE IF n = 4 THEN 16 ELSE IF n = 5 THEN 32
           ELSE IF n = 6 THEN 64 ELSE IF n = 7 THEN 128 ELSE 256
\* bit b of the byte v: (v >> b) & 1
Bit(v, b) == (v \div Pow2(b)) % 2
CeilDiv(a, b) == (a + b - 1) \div b

VARIABLES
    pc,                 \* position in main()
    options,            \* options_t: base_address, format, palette given
    palette_file,       \* the palette file: [sig, pad, lines]
    image_file,         \* the image header file: a sequence of lines
    fpos,               \* lines of image_file already read by fgets
    junk,               \* the byte an uninitialised stack location holds
    color_palette,      \* color_t color_palette[MAX_PALETTE_SIZE], from 0
    palette_stores,     \* positions of color_palette sscanf has stored to
    ncolors,
    x_size,
    y_size,
    color_translation,  \* the filled entries of color_translation, from 0
    cmap_reads,         \* positions of color_translation parse_image read
    raw_image,          \* the values stored through image[], in order
    image_size,
    color_bits,
    converted_image,    \* the written bytes of converted_image: offset -> byte
    data_size,
    output_file,        \* the output stream: [opened, text, line, room, sticky]
    lines,              \* output_hex's running record count
    result              \* what output_fn returned: "none", "true", "false"

vars == <<pc, options, palette_file, image_file, fpos, junk, color_palette,
          palette_stores, ncolors, x_size, y_size, color_translation,
          cmap_reads, raw_image, image_size, color_bits, converted_image,
          data_size, output_file, lines, result>>

(***************************************************************************)
(* Colours and the lines of the input files.                               *)
(***************************************************************************)
Black == <<0, 0, 0>>
White == <<255, 255, 255>>
\* the k-th of n grey levels
Grey(n, k) == IF n <= 1 THEN Black
              ELSE <<(255 * k) \div (n - 1), (255 * k) \div (n - 1), (255 * k) \div (n - 1)>>

\* A palette line on which sscanf matches m of "%hhu %hhu %hhu"
PalLine(m, c) == [m |-> m, c |-> c]
\* An image-file line
WidthLine(v) == [t |-> "width", v |-> v]
HeightLine(v) == [t |-> "height", v |-> v]
ColorLine(c) == [t |-> "color", m |-> 3, c |-> c]
PartialLine(c) == [t |-> "color", m |-> 2, c |-> c]
OtherLine == [t |-> "other"]
MarkerLine == [t |-> "marker"]
EndLine == [t |-> "end"]
\* count pixel tokens, the tokens first .. first+count-1 of pattern pat
PixelLine(pat, nc, first, count) ==
    [t |-> "pixels", pat |-> pat, nc |-> nc, first |-> first, count |-> count]

\* The decimal value of pixel token i of a pattern over nc local colours
TokenAt(pat, nc, i) ==
    CASE pat = "cycle" -> i % nc
      [] pat = "bands" -> (i \div 3) % nc
      [] pat = "high"  -> (nc - 1) - ((i \div 2) % nc)
      [] pat = "wild"  -> (7 * i + 1) % 300
      [] OTHER -> 0

\* The decimal tokens parse_image finds on a line
Tokens(line) ==
    CASE line.t = "pixels" ->
             [j \in 1..line.count |-> TokenAt(line.pat, line.nc, line.first + j - 1)]
      [] line.t = "width"  -> <<line.v>>
      [] line.t = "height" -> <<line.v>>
      [] line.t = "color"  -> SubSeq(line.c, 1, line.m)
      [] OTHER -> <<>>

(***************************************************************************)
(* Uninitialised and out-of-bounds reads.  main()'s arrays live on the     *)
(* stack; a location the program never wrote holds whatever the stack      *)
(* held: junk.buffer13 for read_buffer[13], junk.cmap for the unfilled     *)
(* entries of color_translation and the bytes behind it, junk.image for    *)
(* the unwritten bytes of converted_image and the bytes behind it.         *)
(***************************************************************************)
\* cmap[color] in parse_image
CmapRead(cmap, color, jb) == IF color < Len(cmap) THEN cmap[color + 1] ELSE jb.cmap
\* data[offset] in the writers
ImageRead(binary, offset, jb) ==
    IF offset \in DOMAIN binary THEN binary[offset] ELSE jb.image

(***************************************************************************)
(* open_palette, read_palette                                              *)
(***************************************************************************)
\* strncmp( buffer, palette_sig, sizeof( palette_sig ) ) compares 14 bytes:
\* the 13 read from the file and read_buffer[13], against the signature
\* and its terminating NUL.
open_palette(pf, jb) == pf.sig /\ jb.buffer13 = 0

\* sscanf stores its first `matches` conversions at palette[n]; position
\* MAX_PALETTE_SIZE is behind the array
StoreColor(pal, n, c, matches) ==
    IF n >= MAX_PALETTE_SIZE THEN pal
    ELSE [pal EXCEPT ![n] = <<c[1],
                              IF matches >= 2 THEN c[2] ELSE @[2],
                              IF matches >= 3 THEN c[3] ELSE @[3]>>]

RECURSIVE read_palette_loop(_, _, _, _, _)
read_palette_loop(lns, i, n, pal, st) ==
    IF i > Len(lns) THEN [ncolors |-> n, palette |-> pal, stores |-> st]
    ELSE LET matches == lns[i].m
             pal1 == StoreColor(pal, n, lns[i].c, matches)
             st1 == st \cup {n}
         IN IF matches > 0
            THEN IF matches # 3
                 THEN [ncolors |-> 0, palette |-> pal1, stores |-> st1]
                 ELSE IF n = MAX_PALETTE_SIZE
                      THEN [ncolors |-> 0, palette |-> pal1, stores |-> st1]
                      ELSE read_palette_loop(lns, i + 1, n + 1, pal1, st1)
            ELSE read_palette_loop(lns, i + 1, n, pal, st)

read_palette(pf, pal, jb) ==
    IF open_palette(pf, jb)
    THEN read_palette_loop(pf.lines, 1, 0, pal, {})
    ELSE [ncolors |-> 0, palette |-> pal, stores |-> {}]

(***************************************************************************)
(* get_image_dimensions: pos is the number of lines fgets has returned     *)
(***************************************************************************)
RECURSIVE get_image_dimensions(_, _, _, _)
get_image_dimensions(f, pos, x, y) ==
    IF pos >= Len(f) THEN [ok |-> FALSE, pos |-> pos, x |-> x, y |-> y]
    ELSE LET line == f[pos + 1]
             nx == IF line.t = "width" THEN U16(line.v) ELSE x
             ny == IF line.t = "height" THEN U16(line.v) ELSE y
         IN IF nx # 0 /\ ny # 0
            THEN [ok |-> TRUE, pos |-> pos + 1, x |-> nx, y |-> ny]
            ELSE get_image_dimensions(f, pos + 1, nx, ny)

(***************************************************************************)
(* translate_cmap                                                          *)
(***************************************************************************)
\* the for loop over the palette: the first c < n with palette[c] = rgb, or n
RECURSIVE FindColor(_, _, _, _)
FindColor(pal, n, rgb, c) ==
    IF c < n /\ pal[c] # rgb THEN FindColor(pal, n, rgb, c + 1) ELSE c

RECURSIVE translate_cmap_loop(_, _, _, _, _, _)
translate_cmap_loop(f, pos, pal, n, cmap, start) ==
    IF pos >= Len(f) THEN [image_colors |-> Len(cmap), cmap |-> cmap, pos |-> pos]
    ELSE LET line == f[pos + 1]
             matches == IF line.t = "color" THEN line.m ELSE 0
             c == FindColor(pal, n, line.c, 0)
         IN IF matches > 0
            THEN IF matches # 3
                 THEN [image_colors |-> 0, cmap |-> cmap, pos |-> pos + 1]
                 ELSE IF c = n
                      THEN [image_colors |-> 0, cmap |-> cmap, pos |-> pos + 1]
                      ELSE IF Len(cmap) + 1 = n
                           THEN [image_colors |-> Len(cmap) + 1,
                                 cmap |-> Append(cmap, c), pos |-> pos + 1]
                           ELSE translate_cmap_loop(f, pos + 1, pal, n,
                                                    Append(cmap, c), start + 1)
            ELSE IF start # 0
                 THEN [image_colors |-> 0, cmap |-> cmap, pos |-> pos + 1]
                 ELSE translate_cmap_loop(f, pos + 1, pal, n, cmap, start)

translate_cmap(f, pos, pal, n) == translate_cmap_loop(f, pos, pal, n, <<>>, 0)

(***************************************************************************)
(* search_for_header_data                                                  *)
(***************************************************************************)
RECURSIVE search_for_header_data(_, _)
search_for_header_data(f, pos) ==
    IF pos >= Len(f) THEN [ok |-> FALSE, pos |-> pos]
    ELSE IF f[pos + 1].t = "marker" THEN [ok |-> TRUE, pos |-> pos + 1]
         ELSE search_for_header_data(f, pos + 1)

(***************************************************************************)
(* parse_image.  vals are the values stored through image[], in order,     *)
(* reads the positions of cmap read.                                       *)
(***************************************************************************)
\* the capacity test made before each token is converted
ImageTooBig(size) == size > MAX_IMAGE_SIZE

\* The tokens are converted in order and each stores one value, so the j-th
\* of them is tested with image_size = size + j - 1.  The loops stop at the
\* first token the test refuses.
TokensStored(toks, size) ==
    LET refused == {j \in 1..Len(toks) : ImageTooBig(size + j - 1)}
    IN IF refused = {} THEN Len(toks)
       ELSE (CHOOSE j \in refused : \A i \in refused : j <= i) - 1

\* the tokens of the lines lo .. hi, in order
RECURSIVE LineTokens(_, _, _)
LineTokens(f, lo, hi) ==
    IF hi < lo THEN <<>>
    ELSE IF hi = lo THEN Tokens(f[lo])
    ELSE LineTokens(f, lo, (lo + hi) \div 2) \o LineTokens(f, ((lo + hi) \div 2) + 1, hi)

\* the line fgets returns with "};" in it, Len(f) + 1 when there is none
EndOfData(f, pos) ==
    LET ends == {i \in (pos + 1)..Len(f) : f[i].t = "end"}
    IN IF ends = {} THEN Len(f) + 1 ELSE CHOOSE i \in ends : \A j \in ends : i <= j

\* the line of the first token refused, stored the number of tokens before it
RefusedLine(f, pos, last, stored) ==
    CHOOSE i \in (pos + 1)..last :
        /\ Len(LineTokens(f, pos + 1, i)) > stored
        /\ \A j \in (pos + 1)..(i - 1) : Len(LineTokens(f, pos + 1, j)) <= stored

\* the lines up to last parsed: all their tokens stored and the loop over
\* the lines left by "};" or the end of the file, or a token refused
parse_lines(f, pos, last, toks, k, cmap, jb) ==
    [ret |-> IF k < Len(toks) \/ last = Len(f) THEN 0 ELSE k,
     pos |-> IF k < Len(toks) THEN RefusedLine(f, pos, last, k)
             ELSE IF last = Len(f) THEN Len(f) ELSE last + 1,
     vals |-> [j \in 1..k |-> CmapRead(cmap, U8(toks[j]), jb)],
     reads |-> {U8(toks[j]) : j \in 1..k}]

parse_tokens(f, pos, last, toks, cmap, jb) ==
    parse_lines(f, pos, last, toks, TokensStored(toks, 0), cmap, jb)

parse_image(f, pos, cmap, jb) ==
    parse_tokens(f, pos, EndOfData(f, pos) - 1,
                 LineTokens(f, pos + 1, EndOfData(f, pos) - 1), cmap, jb)

(***************************************************************************)
(* convert_to_layers.  binary is the set of bytes written so far, as a     *)
(* function from offsets of converted_image; raw[i] is raw_image[i + 1].   *)
(***************************************************************************)
\* PixelBit with the pixels of a group numbered from bit 0 upwards: a
\* variant C2_Layout must tell from the code's
PixelBitLsbFirst(raw, x_size0, y, x, cbit, pixel) ==
    IF (x + pixel) < x_size0
    THEN Bit(raw[(y * x_size0) + x + pixel + 1], cbit) * Pow2(pixel)
    ELSE 0

\* one turn of the loop over pixel: the bit OR-ed into the byte
PixelBit(raw, x_size0, y, x, cbit, pixel) ==
    IF (x + pixel) < x_size0
    THEN Bit(raw[(y * x_size0) + x + pixel + 1], cbit) * Pow2(7 - pixel)
    ELSE 0

\* the for loop over pixel, 0 to 7: each bit has its own position, so the
\* OR of them is their sum
GroupByte(raw, x_size0, y, x, cbit) ==
    PixelBit(raw, x_size0, y, x, cbit, 0) + PixelBit(raw, x_size0, y, x, cbit, 1)
    + PixelBit(raw, x_size0, y, x, cbit, 2) + PixelBit(raw, x_size0, y, x, cbit, 3)
    + PixelBit(raw, x_size0, y, x, cbit, 4) + PixelBit(raw, x_size0, y, x, cbit, 5)
    + PixelBit(raw, x_size0, y, x, cbit, 6) + PixelBit(raw, x_size0, y, x, cbit, 7)

\* the offset of plane cbit's byte for group conv_byte
LayerOffset(conv_byte, cbit) == conv_byte + CARD_MEMORY_SIZE * cbit

\* the for loop over cbit, and ++conv_byte after it
RECURSIVE convert_group(_, _, _, _, _, _, _)
convert_group(st, raw, cbits, x_size0, y, x, cbit) ==
    IF cbit < cbits /\ st.conv_byte >= 0
    THEN convert_group(
             [st EXCEPT !.binary = (LayerOffset(st.conv_byte, cbit)
                                      :> GroupByte(raw, x_size0, y, x, cbit)) @@ @,
                        !.data_size = @ + 1],
             raw, cbits, x_size0, y, x, cbit + 1)
    ELSE [st EXCEPT !.conv_byte = @ + 1]

\* the for loop over x: its turns lo .. hi - 1, turn g with x = 8 * g, in
\* order.  The range is halved, and st looked at before the turns that
\* follow it, to keep the evaluation shallow.
RECURSIVE convert_row(_, _, _, _, _, _, _)
convert_row(st, raw, cbits, x_size0, y, lo, hi) ==
    IF hi <= lo \/ st.conv_byte < 0 THEN st
    ELSE IF hi = lo + 1 THEN convert_group(st, raw, cbits, x_size0, y, 8 * lo, 0)
    ELSE convert_row(convert_row(st, raw, cbits, x_size0, y, lo, (lo + hi) \div 2),
                     raw, cbits, x_size0, y, (lo + hi) \div 2, hi)

\* the for loop over y: its turns y = lo .. hi - 1, in order
RECURSIVE convert_rows(_, _, _, _, _, _)
convert_rows(st, raw, cbits, x_size0, lo, hi) ==
    IF hi <= lo \/ st.conv_byte < 0 THEN st
    ELSE IF hi = lo + 1
         THEN convert_row(st, raw, cbits, x_size0, lo, 0, CeilDiv(x_size0, 8))
    ELSE convert_rows(convert_rows(st, raw, cbits, x_size0, lo, (lo + hi) \div 2),
                      raw, cbits, x_size0, (lo + hi) \div 2, hi)

convert_to_layers(raw, cbits, x_size0, y_size0) ==
    convert_rows([binary |-> <<>>, conv_byte |-> 0, data_size |-> 0],
                 raw, cbits, x_size0, 0, y_size0)

\* (int)log2( ncolors ) for 1 <= ncolors <= MAX_PALETTE_SIZE
Log2(n) == IF n >= 16 THEN 4 ELSE IF n >= 8 THEN 3 ELSE IF n >= 4 THEN 2
           ELSE IF n >= 2 THEN 1 ELSE 0

(***************************************************************************)
(* The output stream and printf's %X conversions.  A stream is            *)
(* [opened, text, line, room, sticky]: the finished lines, the characters   *)
(* of the unfinished one, the number of writes that succeed before one     *)
(* fails (-1: none fails), and whether the writes after a failed one fail  *)
(* too (a full device) or succeed again (a passing error).                 *)
(***************************************************************************)
HexChars == <<"0", "1", "2", "3", "4", "5", "6", "7",
              "8", "9", "A", "B", "C", "D", "E", "F">>

\* the hexadecimal digits of n, most significant first, none for 0
RECURSIVE HexDigits(_)
HexDigits(n) == IF n = 0 THEN <<>>
                ELSE Append(HexDigits(n \div 16), HexChars[(n % 16) + 1])

\* %w.wX: at least w digits, zero padded, never cut
FmtX(n, w) ==
    LET d == HexDigits(n)
    IN IF Len(d) >= w THEN d ELSE [i \in 1..(w - Len(d)) |-> "0"] \o d

WriteFails(f) == f.room = 0

\* the stream after a write that failed: nothing of it is in the file
Failed(f) == IF f.sticky THEN f ELSE [f EXCEPT !.room = -1]

\* fprintf / fputs of chars, with a newline after them when nl
Put(f, chars, nl) ==
    [f EXCEPT !.text = IF nl THEN Append(@, f.line \o chars) ELSE @,
              !.line = IF nl THEN <<>> ELSE @ \o chars,
              !.room = IF @ > 0 THEN @ - 1 ELSE @]

(***************************************************************************)
(* ihex_write, pap_write.  d = [binary, off, jb] is the data pointer:      *)
(* data[i] is converted_image[off + i].  ws = [file, address, byte_num,    *)
(* checksum, lines, ok] are the locals; ok is FALSE once a write failed    *)
(* and the function has returned 0.                                        *)
(***************************************************************************)
Data(d, i) == ImageRead(d.binary, d.off + i, d.jb)

\* uint8_t bytes_in_line = data_size - byte_num > BYTES_PER_LINE ? ... : ...
BytesInLine(data_size0, byte_num, per_line) ==
    U8(IF data_size0 - byte_num > per_line THEN per_line ELSE data_size0 - byte_num)

\* the three leading terms of a record's checksum
ChecksumStart(bytes_in_line, address) ==
    bytes_in_line + ((address \div 256) % 256) + (address % 256)

\* (uint8_t)(~checksum + 1)
IhexChecksumField(checksum) == U8((255 - checksum) + 1)

\* ihex_header without the reset of checksum, the sum of the record before
\* carried into this one: a variant C7_Checksum must tell from the code's
ihex_header_carry(ws, bytes_in_line) ==
    IF WriteFails(ws.file) THEN [ws EXCEPT !.ok = FALSE, !.file = Failed(@)]
    ELSE [ws EXCEPT
            !.checksum = U8(@ + ChecksumStart(bytes_in_line, ws.address)),
            !.file = Put(@, <<":">> \o FmtX(bytes_in_line, 2)
                            \o FmtX(ws.address, 4) \o <<"0", "0">>, FALSE)]

\* the record header: bytes_in_line, the checksum's start, the fprintf
ihex_header(ws, bytes_in_line) ==
    IF WriteFails(ws.file) THEN [ws EXCEPT !.ok = FALSE, !.file = Failed(@)]
    ELSE [ws EXCEPT
            !.checksum = U8(ChecksumStart(bytes_in_line, ws.address) + 0),
            !.file = Put(@, <<":">> \o FmtX(bytes_in_line, 2)
                            \o FmtX(ws.address, 4) \o <<"0", "0">>, FALSE)]

\* the body of if ( ! (byte_num % BYTES_PER_LINE) ): ++lines, the checksum
\* of the record before when there is one, the header
ihex_new_line(ws, data_size0) ==
    IF ws.byte_num # 0 /\ WriteFails(ws.file)
    THEN [ws EXCEPT !.ok = FALSE, !.lines = U16(@ + 1), !.file = Failed(@)]
    ELSE ihex_header(
             [ws EXCEPT
                !.lines = U16(@ + 1),
                !.file = IF ws.byte_num # 0
                         THEN Put(@, FmtX(IhexChecksumField(ws.checksum), 2), TRUE)
                         ELSE @],
             BytesInLine(data_size0, ws.byte_num, IHEX_BYTES_PER_LINE))

\* the rest of a turn of the while loop: the data byte
ihex_byte(ws, d) ==
    IF ~ws.ok THEN ws
    ELSE IF WriteFails(ws.file) THEN [ws EXCEPT !.ok = FALSE, !.file = Failed(@)]
    ELSE [ws EXCEPT !.file = Put(@, FmtX(Data(d, ws.byte_num), 2), FALSE),
                    !.checksum = U8(@ + Data(d, ws.byte_num)),
                    !.byte_num = @ + 1,
                    !.address = U16(@ + 1)]

\* one turn of the while loop
ihex_body(ws, d, data_size0) ==
    ihex_byte(IF ws.byte_num % IHEX_BYTES_PER_LINE = 0
              THEN ihex_new_line(ws, data_size0) ELSE ws, d)

\* the while loop: its turns byte_num = lo .. hi - 1, in order, left once
\* a write has failed (the range is halved to keep the evaluation shallow)
RECURSIVE ihex_loop(_, _, _, _, _)
ihex_loop(ws, d, data_size0, lo, hi) ==
    IF ~ws.ok \/ hi <= lo THEN ws
    ELSE IF hi = lo + 1 THEN ihex_body(ws, d, data_size0)
    ELSE ihex_loop(ihex_loop(ws, d, data_size0, lo, (lo + hi) \div 2),
                   d, data_size0, (lo + hi) \div 2, hi)

\* after the loop: the last record's checksum, and the value returned
ihex_end(ws) ==
    IF ~ws.ok THEN [ret |-> 0, file |-> ws.file]
    ELSE IF WriteFails(ws.file) THEN [ret |-> 0, file |-> Failed(ws.file)]
    ELSE [ret |-> ws.lines,
          file |-> Put(ws.file, FmtX(IhexChecksumField(ws.checksum), 2), TRUE)]

ihex_write(file, address, d, data_size0) ==
    ihex_end(ihex_loop([file |-> file, address |-> address, byte_num |-> 0,
                        checksum |-> 0, lines |-> 0, ok |-> TRUE],
                       d, data_size0, 0, data_size0))

ihex_terminate(file, lines0) ==
    IF WriteFails(file) THEN [ok |-> FALSE, file |-> Failed(file)]
    ELSE [ok |-> TRUE,
          file |-> Put(file, <<":", "0", "0", "0", "0", "0", "0", "0", "1", "F", "F">>, TRUE)]

\* the record header: bytes_in_line, the checksum's start, the fprintf
pap_header(ws, bytes_in_line) ==
    IF WriteFails(ws.file) THEN [ws EXCEPT !.ok = FALSE, !.file = Failed(@)]
    ELSE [ws EXCEPT
            !.checksum = U16(ChecksumStart(bytes_in_line, ws.address)),
            !.file = Put(@, <<";">> \o FmtX(bytes_in_line, 2)
                            \o FmtX(ws.address, 4), FALSE)]

\* the body of if ( ! (byte_num % BYTES_PER_LINE) )
pap_new_line(ws, data_size0) ==
    IF ws.byte_num # 0 /\ WriteFails(ws.file)
    THEN [ws EXCEPT !.ok = FALSE, !.lines = U16(@ + 1), !.file = Failed(@)]
    ELSE pap_header(
             [ws EXCEPT
                !.lines = U16(@ + 1),
                !.file = IF ws.byte_num # 0
                         THEN Put(@, FmtX(ws.checksum, 4), TRUE)
                         ELSE @],
             BytesInLine(data_size0, ws.byte_num, PAP_BYTES_PER_LINE))

\* the rest of a turn of the while loop: the data byte
pap_byte(ws, d) ==
    IF ~ws.ok THEN ws
    ELSE IF WriteFails(ws.file) THEN [ws EXCEPT !.ok = FALSE, !.file = Failed(@)]
    ELSE [ws EXCEPT !.file = Put(@, FmtX(Data(d, ws.byte_num), 2), FALSE),
                    !.checksum = U16(@ + Data(d, ws.byte_num)),
                    !.byte_num = @ + 1,
                    !.address = U16(@ + 1)]

\* one turn of the while loop
pap_body(ws, d, data_size0) ==
    pap_byte(IF ws.byte_num % PAP_BYTES_PER_LINE = 0
             THEN pap_new_line(ws, data_size0) ELSE ws, d)

\* the while loop: its turns byte_num = lo .. hi - 1, in order, left once
\* a write has failed
RECURSIVE pap_loop(_, _, _, _, _)
pap_loop(ws, d, data_size0, lo, hi) ==
    IF ~ws.ok \/ hi <= lo THEN ws
    ELSE IF hi = lo + 1 THEN pap_body(ws, d, data_size0)
    ELSE pap_loop(pap_loop(ws, d, data_size0, lo, (lo + hi) \div 2),
                  d, data_size0, (lo + hi) \div 2, hi)

\* after the loop: the last record's checksum, and the value returned
pap_end(ws) ==
    IF ~ws.ok THEN [ret |-> 0, file |-> ws.file]
    ELSE IF WriteFails(ws.file) THEN [ret |-> 0, file |-> Failed(ws.file)]
    ELSE [ret |-> ws.lines, file |-> Put(ws.file, FmtX(ws.checksum, 4), TRUE)]

pap_write(file, address, d, data_size0) ==
    pap_end(pap_loop([file |-> file, address |-> address, byte_num |-> 0,
                      checksum |-> 0, lines |-> 0, ok |-> TRUE],
                     d, data_size0, 0, data_size0))

pap_terminate(file, lines0) ==
    IF WriteFails(file) THEN [ok |-> FALSE, file |-> Failed(file)]
    ELSE [ok |-> TRUE,
          file |-> Put(file, <<";", "0", "0">> \o FmtX(lines0, 4)
                             \o FmtX(((lines0 \div 256) % 256) + (lines0 % 256), 4), TRUE)]

(***************************************************************************)
(* output_hex, with output_ihex and output_pap's function pointers as      *)
(* the format name.  os = [file, lines, ok].                               *)
(***************************************************************************)
write_fn(format, file, address, d, data_size0) ==
    IF format = "ihex" THEN ihex_write(file, address, d, data_size0)
    ELSE pap_write(file, address, d, data_size0)

terminate_fn(format, file, lines0) ==
    IF format = "ihex" THEN ihex_terminate(file, lines0)
    ELSE pap_terminate(file, lines0)

\* x_size > ( MAX_COL_BYTES - 1 ) * 8
FlatMode(x_size0) == x_size0 > (MAX_COL_BYTES - 1) * 8

\* uint16_t cbit_offset = cbit * CARD_MEMORY_SIZE
CbitOffset(cbit) == U16(cbit * CARD_MEMORY_SIZE)

\* uint16_t line_offset = linenum * MAX_COL_BYTES
LineOffset(linenum) == U16(linenum * MAX_COL_BYTES)

\* the byte count handed to write_fn for one whole plane
FlatSize(data_size0, cbits) == data_size0

\* the uint16_t address argument of write_fn
FlatAddress(base, cbit) == U16(base + CbitOffset(cbit))
RowAddress(base, cbit, linenum) == U16(base + CbitOffset(cbit) + LineOffset(linenum))

\* AddLines with lines = retlines for lines += retlines: a variant
\* C8_Terminator must tell from the code's
AddLinesLast(os, r) ==
    IF r.ret = 0 THEN [os EXCEPT !.file = r.file, !.ok = FALSE]
    ELSE [os EXCEPT !.file = r.file, !.lines = U16(r.ret)]

\* if ( ! retlines ) return false; lines += retlines;
AddLines(os, r) ==
    IF r.ret = 0 THEN [os EXCEPT !.file = r.file, !.ok = FALSE]
    ELSE [os EXCEPT !.file = r.file, !.lines = U16(@ + r.ret)]

\* one write_fn call and the test of its result
WriteCall(os, format, address, d, size) ==
    AddLines(os, write_fn(format, os.file, address, d, size))

\* one turn of the for loop over linenum
output_row(os, format, base, binary, jb, cbit, x_size0, linenum) ==
    WriteCall(os, format, RowAddress(base, cbit, linenum),
              [binary |-> binary, jb |-> jb,
               off |-> CbitOffset(cbit) + linenum * ((x_size0 + 7) \div 8)],
              (x_size0 + 7) \div 8)

\* the for loop over linenum: its turns linenum = lo .. hi - 1, in order,
\* left once a write_fn call has returned 0
RECURSIVE output_rows(_, _, _, _, _, _, _, _, _)
output_rows(os, format, base, binary, jb, cbit, x_size0, lo, hi) ==
    IF ~os.ok \/ hi <= lo THEN os
    ELSE IF hi = lo + 1
         THEN output_row(os, format, base, binary, jb, cbit, x_size0, lo)
    ELSE output_rows(
             output_rows(os, format, base, binary, jb, cbit, x_size0, lo, (lo + hi) \div 2),
             format, base, binary, jb, cbit, x_size0, (lo + hi) \div 2, hi)

\* the for loop over cbit, left once a write_fn call has returned 0
RECURSIVE output_planes(_, _, _, _, _, _, _, _, _, _)
output_planes(os, format, base, binary, jb, data_size0, cbits, x_size0, y_size0, cbit) ==
    IF ~os.ok \/ ~(cbit < cbits) THEN os
    ELSE output_planes(
             IF FlatMode(x_size0)
             THEN WriteCall(os, format, FlatAddress(base, cbit),
                            [binary |-> binary, jb |-> jb, off |-> CbitOffset(cbit)],
                            FlatSize(data_size0, cbits))
             ELSE output_rows(os, format, base, binary, jb, cbit, x_size0, 0, y_size0),
             format, base, binary, jb, data_size0, cbits, x_size0, y_size0, cbit + 1)

\* bool result = terminate_fn( output_file, lines )
Terminate(os, t) == [result |-> t.ok, file |-> t.file, lines |-> os.lines]

\* output_end without the return after a failed write_fn call: a variant
\* C11_WriteFailure must tell from the code's
output_end_always(format, os) ==
    Terminate(os, terminate_fn(format, os.file, os.lines))

\* after the loops: false when a write_fn call returned 0, else the terminator
output_end(format, os) ==
    IF ~os.ok THEN [result |-> FALSE, file |-> os.file, lines |-> os.lines]
    ELSE Terminate(os, terminate_fn(format, os.file, os.lines))

output_hex(file, format, base, binary, jb, data_size0, cbits, x_size0, y_size0) ==
    output_end(format,
               output_planes([file |-> [file EXCEPT !.opened = TRUE],
                              lines |-> 0, ok |-> TRUE],
                             format, base, binary, jb, data_size0, cbits,
                             x_size0, y_size0, 0))

(***************************************************************************)
(* The inputs of a run: the command line, the two files, what the stack    *)
(* holds, and how many writes the output device takes.                     *)
(***************************************************************************)
\* color_t color_palette[MAX_PALETTE_SIZE] = { { 0, 0, 0}, {255, 255, 255} }
DefaultPalette ==
    [i \in 0..(MAX_PALETTE_SIZE - 1) |-> IF i = 1 THEN White ELSE Black]

\* a GIMP palette of n grey levels: a name line, then one line per colour
PaletteOf(n) ==
    [sig |-> TRUE,
     lines |-> <<PalLine(0, Black)>> \o [k \in 1..n |-> PalLine(3, Grey(n, k - 1))]]
NoPaletteFile == [sig |-> TRUE, lines |-> <<>>]
BadSigPalette == [sig |-> FALSE, lines |-> <<PalLine(3, Black), PalLine(3, White)>>]
MalformedPalette ==
    [sig |-> TRUE, lines |-> <<PalLine(3, Black), PalLine(2, White), PalLine(3, White)>>]

\* the colours of the palette in use: n = 0 is no palette file
Colours(n) == IF n = 0 THEN <<Black, White>> ELSE [k \in 1..n |-> Grey(n, k - 1)]

\* the header_data_cmap lines of the image file
ColorTable(kind, cols) ==
    LET n == Len(cols)
    IN CASE kind = "same"     -> [k \in 1..n |-> ColorLine(cols[k])]
         [] kind = "reversed" -> [k \in 1..n |-> ColorLine(cols[n + 1 - k])]
         [] kind = "dup"      -> [k \in 1..n |-> ColorLine(cols[1])]
         [] kind = "unknown"  -> [k \in 1..n |-> IF k = n THEN ColorLine(<<1, 2, 3>>)
                                                 ELSE ColorLine(cols[k])]
         [] kind = "short"    -> [k \in 1..n |-> IF k = n THEN OtherLine
                                                 ELSE ColorLine(cols[k])]
         [] kind = "partial"  -> [k \in 1..n |-> IF k = n THEN PartialLine(cols[k])
                                                 ELSE ColorLine(cols[k])]
         [] OTHER -> <<>>

\* n pixel tokens, per to a line
PixelLines(pat, nc, n, per) ==
    [k \in 1..CeilDiv(n, per) |->
        PixelLine(pat, nc, (k - 1) * per, Min(per, n - (k - 1) * per))]

\* a GIMP header: the dimensions, the colour table, the marker, the pixels
ImageFile(w, h, ctab, marker, pixels, end) ==
    <<OtherLine>>
    \o (IF w = 0 THEN <<>> ELSE <<WidthLine(w)>>)
    \o <<HeightLine(h), OtherLine>>
    \o ctab
    \o <<OtherLine>>
    \o (IF marker THEN <<MarkerLine>> ELSE <<>>)
    \o pixels
    \o (IF end THEN <<EndLine>> ELSE <<>>)

CleanStack == [buffer13 |-> 0, cmap |-> 0, image |-> 0]
DirtyStack == [buffer13 |-> 0, cmap |-> 255, image |-> 165]
DirtyBuffer == [buffer13 |-> 10, cmap |-> 0, image |-> 0]

Input(n, w, h, kind, pat, ntok, format, base, jb, room) ==
    [options |-> [base_address |-> base, format |-> format, palette |-> n # 0],
     palette_file |-> IF n = 0 THEN NoPaletteFile ELSE PaletteOf(n),
     image_file |-> ImageFile(w, h, ColorTable(kind, Colours(n)), TRUE,
                              PixelLines(pat, Len(Colours(n)), ntok,
                                         IF ntok > MAX_IMAGE_SIZE THEN LongLine
                                         ELSE TokensPerLine), TRUE),
     junk |-> jb, room |-> room, sticky |-> TRUE]

Formats == {"pap", "ihex"}
\* the base addresses get_options lets through
BaseAddresses ==
    {a \in MIN_BASE_ADDRESS..MAX_BASE_ADDRESS : a % CARD_MEMORY_SIZE = 0}
Heights == 1..MaxHeight

\* well-formed images over palettes of 2, 4 and 16 colours
ConvInputs ==
    {Input(n, w, h, kind, pat, w * h, "pap", MIN_BASE_ADDRESS, CleanStack, -1) :
        n \in {0, 4, 16}, w \in {5, 16}, h \in Heights,
        kind \in {"same", "reversed"}, pat \in {"cycle", "bands", "high"}}

\* palettes of other sizes
OddInputs ==
    {Input(n, 9, h, kind, "cycle", 9 * h, format, MIN_BASE_ADDRESS, CleanStack, -1) :
        n \in {1, 2, 3, 5, 8}, h \in Heights, kind \in {"same", "dup"},
        format \in Formats}

\* images of every row width class, in both formats, at every base address
OutInputs ==
    {Input(n, w, h, "same", "bands", w * h, format, base, jb, -1) :
        n \in {0, 4, 16}, w \in {5, 200, 264, 312, 313, 320}, h \in Heights,
        format \in Formats, base \in BaseAddresses, jb \in {DirtyStack}}

\* pixel tokens that are no local colour index
WildInputs ==
    {Input(n, 16, 1, "same", pat, 16, format, MIN_BASE_ADDRESS, jb, -1) :
        n \in {0, 4}, pat \in {"wild", "cycle"}, format \in Formats,
        jb \in {CleanStack, DirtyStack}}

\* files the readers reject
BadInputs ==
    {Input(n, w, h, kind, "cycle", ntok, "pap", MIN_BASE_ADDRESS, jb, -1) :
        n \in {0, 4}, w \in {0, 8, 321}, h \in {0, 2, 201},
        kind \in {"same", "unknown", "short", "partial"},
        ntok \in {15, 16, 17}, jb \in {CleanStack, DirtyBuffer}}
    \cup
    {[Input(0, 8, 1, "same", "cycle", 8, "pap", MIN_BASE_ADDRESS, CleanStack, -1)
        EXCEPT !.options.palette = TRUE, !.palette_file = pf] :
        pf \in {BadSigPalette, MalformedPalette, PaletteOf(17)}}
    \cup
    {[Input(0, 8, 1, "same", "cycle", 8, "pap", MIN_BASE_ADDRESS, CleanStack, -1)
        EXCEPT !.image_file = ImageFile(8, 1, ColorTable("same", Colours(0)), marker,
                                        PixelLines("cycle", 2, ntok, TokensPerLine), end)] :
        marker \in BOOLEAN, end \in BOOLEAN, ntok \in {0, 8}}

\* pixel blocks longer than the raster
BigInputs ==
    {Input(0, MAX_COL_BYTES * 8, MAX_ROWS, "same", "cycle", ntok, "pap",
           MIN_BASE_ADDRESS, CleanStack, -1) :
        ntok \in {MAX_IMAGE_SIZE + 1, MAX_IMAGE_SIZE + 2}}

\* an output device on which the write after room writes fails, and the
\* writes after that one fail too or succeed again
FailInputs ==
    {[Input(4, w, 2, "same", "bands", w * 2, format, MIN_BASE_ADDRESS, CleanStack, room)
        EXCEPT !.sticky = sticky] :
        w \in {5, 313}, format \in Formats, room \in {0, 1, 2, 3, 7, 12, 25, 33, 40},
        sticky \in BOOLEAN}

\* images of the greatest height, one byte to the row
TallInputs ==
    {Input(4, 8, MAX_ROWS, "same", "bands", 8 * MAX_ROWS, format, MAX_BASE_ADDRESS,
           CleanStack, -1) : format \in Formats}

Inputs == ConvInputs \cup OddInputs \cup OutInputs \cup WildInputs \cup BadInputs
          \cup BigInputs \cup FailInputs \cup TallInputs

(***************************************************************************)
(* main()                                                                  *)
(***************************************************************************)
Init ==
    \E in \in Inputs :
        /\ pc = "palette"
        /\ options = in.options
        /\ palette_file = in.palette_file
        /\ image_file = in.image_file
        /\ fpos = 0
        /\ junk = in.junk
        /\ color_palette = DefaultPalette
        /\ palette_stores = {}
        /\ ncolors = 2
        /\ x_size = 0
        /\ y_size = 0
        /\ color_translation = <<>>
        /\ cmap_reads = {}
        /\ raw_image = <<>>
        /\ image_size = 0
        /\ color_bits = 0
        /\ converted_image = <<>>
        /\ data_size = 0
        /\ output_file = [opened |-> FALSE, text |-> <<>>, line |-> <<>>,
                          room |-> in.room, sticky |-> in.sticky]
        /\ lines = 0
        /\ result = "none"

\* ncolors = read_palette( ... ), exit when it is 0
PaletteRead(r) ==
    /\ ncolors' = r.ncolors
    /\ color_palette' = r.palette
    /\ palette_stores' = r.stores
    /\ pc' = IF r.ncolors = 0 THEN "exit_failure" ELSE "dimensions"

\* kimg.c 566-576
ReadPalette ==
    /\ pc = "palette"
    /\ IF options.palette
       THEN PaletteRead(read_palette(palette_file, color_palette, junk))
       ELSE /\ UNCHANGED <<ncolors, color_palette, palette_stores>>
            /\ pc' = "dimensions"
    /\ UNCHANGED <<options, palette_file, image_file, fpos, junk, x_size, y_size,
                   color_translation, cmap_reads, raw_image, image_size, color_bits,
                   converted_image, data_size, output_file, lines, result>>

\* x_size > MAX_COL_BYTES * 8 || y_size > MAX_ROWS
TooLarge(x, y) == x > MAX_COL_BYTES * 8 \/ y > MAX_ROWS

DimensionsRead(r) ==
    /\ x_size' = r.x
    /\ y_size' = r.y
    /\ fpos' = r.pos
    /\ pc' = IF ~r.ok \/ TooLarge(r.x, r.y) THEN "exit_failure" ELSE "cmap"

\* kimg.c 584-596
GetImageDimensions ==
    /\ pc = "dimensions"
    /\ DimensionsRead(get_image_dimensions(image_file, fpos, 0, 0))
    /\ UNCHANGED <<options, palette_file, image_file, junk, color_palette,
                   palette_stores, ncolors, color_translation, cmap_reads, raw_image,
                   image_size, color_bits, converted_image, data_size, output_file,
                   lines, result>>

CmapTranslated(r) ==
    /\ color_translation' = r.cmap
    /\ fpos' = r.pos
    /\ pc' = IF ncolors # r.image_colors THEN "exit_failure" ELSE "header"

\* kimg.c 598-602
TranslateCmap ==
    /\ pc = "cmap"
    /\ CmapTranslated(translate_cmap(image_file, fpos, color_palette, ncolors))
    /\ UNCHANGED <<options, palette_file, image_file, junk, color_palette,
                   palette_stores, ncolors, x_size, y_size, cmap_reads, raw_image,
                   image_size, color_bits, converted_image, data_size, output_file,
                   lines, result>>

HeaderSearched(r) ==
    /\ fpos' = r.pos
    /\ pc' = IF ~r.ok THEN "exit_failure" ELSE "parse"

\* kimg.c 604-608
SearchForHeaderData ==
    /\ pc = "header"
    /\ HeaderSearched(search_for_header_data(image_file, fpos))
    /\ UNCHANGED <<options, palette_file, image_file, junk, color_palette,
                   palette_stores, ncolors, x_size, y_size, color_translation,
                   cmap_reads, raw_image, image_size, color_bits, converted_image,
                   data_size, output_file, lines, result>>

\* what main does with parse_image's return value (kimg.c 610-613)
AfterParse(ret) == IF ret = 0 THEN "exit_failure" ELSE "size"

Parsed(r) ==
    /\ raw_image' = r.vals
    /\ cmap_reads' = r.reads
    /\ fpos' = r.pos
    /\ image_size' = r.ret
    /\ pc' = AfterParse(r.ret)

\* kimg.c 610-613
ParseImage ==
    /\ pc = "parse"
    /\ Parsed(parse_image(image_file, fpos, color_translation, junk))
    /\ UNCHANGED <<options, palette_file, image_file, junk, color_palette,
                   palette_stores, ncolors, x_size, y_size, color_translation,
                   color_bits, converted_image, data_size, output_file, lines, result>>

\* SizeMismatch that lets a pixel block longer than the image through: a
\* variant C10_DimensionCheck must tell from the code's
SizeMismatchShortOnly(size, x, y) == size < x * y

\* image_size != x_size * y_size
SizeMismatch(size, x, y) == size # x * y

\* kimg.c 619-623
CheckImageSize ==
    /\ pc = "size"
    /\ pc' = IF SizeMismatch(image_size, x_size, y_size) THEN "exit_failure" ELSE "convert"
    /\ UNCHANGED <<options, palette_file, image_file, fpos, junk, color_palette,
                   palette_stores, ncolors, x_size, y_size, color_translation,
                   cmap_reads, raw_image, image_size, color_bits, converted_image,
                   data_size, output_file, lines, result>>

Converted(r) ==
    /\ converted_image' = r.binary
    /\ data_size' = r.data_size

\* kimg.c 625-627
ConvertToLayers ==
    /\ pc = "convert"
    /\ color_bits' = Log2(ncolors)
    /\ Converted(convert_to_layers(raw_image, Log2(ncolors), x_size, y_size))
    /\ pc' = "output"
    /\ UNCHANGED <<options, palette_file, image_file, fpos, junk, color_palette,
                   palette_stores, ncolors, x_size, y_size, color_translation,
                   cmap_reads, raw_image, image_size, output_file, lines, result>>

Written(r) ==
    /\ output_file' = r.file
    /\ lines' = r.lines
    /\ result' = IF r.result THEN "true" ELSE "false"

\* kimg.c 629-631: options.format->output_fn, output_pap or output_ihex
Output ==
    /\ pc = "output"
    /\ Written(output_hex(output_file, options.format, options.base_address,
                          converted_image, junk, data_size, color_bits,
                          x_size, y_size))
    /\ pc' = "exit_success"
    /\ UNCHANGED <<options, palette_file, image_file, fpos, junk, color_palette,
                   palette_stores, ncolors, x_size, y_size, color_translation,
                   cmap_reads, raw_image, image_size, color_bits, converted_image,
                   data_size>>

Next ==
    \/ ReadPalette
    \/ GetImageDimensions
    \/ TranslateCmap
    \/ SearchForHeaderData
    \/ ParseImage
    \/ CheckImageSize
    \/ ConvertToLayers
    \/ Output

Spec == Init /\ [][Next]_vars

(***************************************************************************)
(* Reading the output back: the fields of a finished record, as the        *)
(* format strings of ihex.c and pap.c lay them out.                        *)
(*   ihex  :LLAAAA00dd..ddCC      pap  ;LLAAAAdd..ddCCCC                   *)
(***************************************************************************)
HexDigitVal(c) == CHOOSE v \in 0..15 : HexChars[v + 1] = c

RECURSIVE HexVal(_)
HexVal(s) == IF Len(s) = 0 THEN 0
             ELSE 16 * HexVal(SubSeq(s, 1, Len(s) - 1)) + HexDigitVal(s[Len(s)])

RECURSIVE SeqSum(_)
SeqSum(s) == IF Len(s) = 0 THEN 0 ELSE s[1] + SeqSum(Tail(s))

BytesPerLine(format) ==
    IF format = "ihex" THEN IHEX_BYTES_PER_LINE ELSE PAP_BYTES_PER_LINE
RecMark(format) == IF format = "ihex" THEN ":" ELSE ";"
\* characters before the data, and characters of the checksum field
HeadLen(format) == IF format = "ihex" THEN 9 ELSE 7
SumLen(format) == IF format = "ihex" THEN 2 ELSE 4

RecCount(l) == HexVal(SubSeq(l, 2, 3))
RecAddress(l) == HexVal(SubSeq(l, 4, 7))
RecData(format, l) ==
    [k \in 1..((Len(l) - HeadLen(format) - SumLen(format)) \div 2) |->
        HexVal(SubSeq(l, HeadLen(format) + 2 * k - 1, HeadLen(format) + 2 * k))]
RecSum(format, l) == HexVal(SubSeq(l, Len(l) - SumLen(format) + 1, Len(l)))

\* a line of the shape the terminator has: record type 01, or no data bytes
IsTerminator(format, l) ==
    IF format = "ihex" THEN Len(l) >= 9 /\ SubSeq(l, 8, 9) = <<"0", "1">>
    ELSE Len(l) >= 3 /\ SubSeq(l, 2, 3) = <<"0", "0">>

\* the finished data records of the output, in order
DataRecords ==
    IF result = "true" THEN SubSeq(output_file.text, 1, Len(output_file.text) - 1)
    ELSE output_file.text

\* byte k of plane p as convert_to_layers left it
PlaneByte(p, k) == ImageRead(converted_image, p * CARD_MEMORY_SIZE + k, junk)

\* ceil(width/8), the bytes of one row of one plane
Stride == CeilDiv(x_size, 8)

AfterConvert == pc \in {"output", "exit_success"}
Serialized == pc = "exit_success" /\ result = "true"

\* the first width and height the image file declares, 0 when it has none
Declared(t) ==
    LET at == {i \in 1..Len(image_file) : image_file[i].t = t}
    IN IF at = {} THEN 0
       ELSE image_file[CHOOSE i \in at : \A j \in at : i <= j].v

(***************************************************************************)
(* C1.  Bit-plane round trip: for a raster of palette indices, the index   *)
(* rebuilt for each pixel from the color_bits planes (bit b from plane b,  *)
(* byte of the pixel's group, bit 7 - x mod 8) is the raster's value.      *)
(***************************************************************************)
Reconstructed(x, y) ==
    LET bit(b) == IF b < color_bits
                  THEN Bit(PlaneByte(b, (x \div 8) + Stride * y), 7 - (x % 8)) * Pow2(b)
                  ELSE 0
    IN bit(0) + bit(1) + bit(2) + bit(3)

\* C1: every pixel of a converted raster of palette indices is rebuilt from
\* the planes unchanged
C1_RoundTrip ==
    (AfterConvert /\ \A i \in 1..Len(raw_image) : raw_image[i] < ncolors)
    => \A y \in 0..(y_size - 1) : \A x \in 0..(x_size - 1) :
            Reconstructed(x, y) = raw_image[y * x_size + x + 1]

(***************************************************************************)
(* C2.  Bit-plane layout.                                                  *)
(***************************************************************************)
\* C2: after convert_to_layers, the byte at b*8192 + g + ceil(width/8)*y
\* carries in bit 7-i bit b of pixel 8g+i of row y, and 0 beyond the width;
\* the bytes written are exactly ceil(width/8)*height per plane, each plane
\* inside its own 8192-byte slot, which the largest image still fits
C2_Layout ==
    /\ CeilDiv(MAX_COL_BYTES * 8, 8) * MAX_ROWS <= CARD_MEMORY_SIZE
    /\ AfterConvert =>
        /\ \A b \in 0..(color_bits - 1) : \A y \in 0..(y_size - 1) :
             \A g \in 0..(Stride - 1) :
                LET off == b * CARD_MEMORY_SIZE + g + Stride * y
                IN /\ off \in DOMAIN converted_image
                   /\ \A i \in 0..7 :
                        Bit(converted_image[off], 7 - i)
                        = IF 8 * g + i < x_size
                          THEN Bit(raw_image[y * x_size + 8 * g + i + 1], b)
                          ELSE 0
        /\ DOMAIN converted_image
           = {b * CARD_MEMORY_SIZE + k :
                b \in 0..(color_bits - 1), k \in 0..(Stride * y_size - 1)}
        /\ Stride * y_size <= CARD_MEMORY_SIZE

\* a converted image of several planes and rows whose width is no multiple
\* of 8, with set bits in the last plane
C2_Witness ==
    /\ pc = "output"
    /\ color_bits >= 2 /\ y_size >= 2 /\ x_size % 8 # 0
    /\ \E k \in 0..(Stride * y_size - 1) : PlaneByte(color_bits - 1, k) # 0

(***************************************************************************)
(* C3.  Raster values are valid palette indices.                           *)
(***************************************************************************)
\* C3: parse_image reads the translation table only at entries
\* translate_cmap filled, and every value it appends to the raster is below
\* the palette length
C3_ValidIndices ==
    /\ \A c \in cmap_reads : c < Len(color_translation)
    /\ \A i \in 1..Len(raw_image) : raw_image[i] < ncolors

(***************************************************************************)
(* C4.  The number of planes.                                              *)
(***************************************************************************)
\* C4: for every palette the pipeline goes on with, color_bits is in 1..4
C4_ColorBitsRange == AfterConvert => color_bits \in 1..MAX_CARDS

(***************************************************************************)
(* C5, C6.  The data records of a successful serialization.                *)
(***************************************************************************)
\* C5: in flat mode each plane gives ceil(P/L) records, P = ceil(width/8) *
\* height, that carry the plane's P bytes in order, L in each but the last,
\* the count field of each the number of its data bytes
C5_FlatRecords ==
    (Serialized /\ FlatMode(x_size)) =>
        LET L == BytesPerLine(options.format)
            P == Stride * y_size
            n == CeilDiv(P, L)
            recs == DataRecords
        IN /\ Len(recs) = color_bits * n
           /\ \A p \in 0..(color_bits - 1) : \A j \in 1..n :
                LET l == recs[p * n + j]
                    cnt == IF j < n THEN L ELSE P - (n - 1) * L
                IN /\ RecCount(l) = cnt
                   /\ RecData(options.format, l)
                      = [k \in 1..cnt |-> PlaneByte(p, (j - 1) * L + k - 1)]

\* C6: in row mode each row y of each plane p gives ceil(W/L) records,
\* W = ceil(width/8), that carry the row's W bytes; the first has address
\* base + p*8192 + y*40, each next one the address before plus L
C6_RowAddressing ==
    (Serialized /\ ~FlatMode(x_size)) =>
        LET L == BytesPerLine(options.format)
            W == Stride
            m == CeilDiv(W, L)
            recs == DataRecords
        IN /\ Len(recs) = color_bits * y_size * m
           /\ \A p \in 0..(color_bits - 1) : \A y \in 0..(y_size - 1) :
                \A j \in 1..m :
                    LET l == recs[(p * y_size + y) * m + j]
                        cnt == IF j < m THEN L ELSE W - (m - 1) * L
                    IN /\ RecAddress(l)
                          = options.base_address + p * CARD_MEMORY_SIZE
                            + y * MAX_COL_BYTES + (j - 1) * L
                       /\ RecCount(l) = cnt
                       /\ RecData(options.format, l)
                          = [k \in 1..cnt |-> PlaneByte(p, W * y + (j - 1) * L + k - 1)]

(***************************************************************************)
(* C7.  The checksum of a data record.                                     *)
(***************************************************************************)
\* the sum the checksum is made of: the count, the two address bytes, the
\* data bytes of the record itself
RecTerms(format, l) ==
    RecCount(l) + (RecAddress(l) \div 256) + (RecAddress(l) % 256)
    + SeqSum(RecData(format, l))

\* C7: every finished data record has the shape of its format, and its
\* checksum field is made of its own count, address and data alone: in a
\* hex record the field is the negation mod 256 of their sum, so that the
\* record sums to 0 mod 256; in a papertape record it is their sum mod 65536
C7_Checksum ==
    \A i \in 1..Len(DataRecords) :
        LET l == DataRecords[i]
            f == options.format
        IN /\ l[1] = RecMark(f)
           /\ Len(l) = HeadLen(f) + 2 * RecCount(l) + SumLen(f)
           /\ IF f = "ihex"
              THEN /\ SubSeq(l, 8, 9) = <<"0", "0">>
                   /\ RecSum(f, l) = (256 - (RecTerms(f, l) % 256)) % 256
                   /\ (RecTerms(f, l) + 0 + RecSum(f, l)) % 256 = 0
              ELSE RecSum(f, l) = RecTerms(f, l) % 65536

\* a hex output in which one write_fn call gave two records, the second
\* with data that is not all zero
C7_Witness ==
    /\ Serialized /\ options.format = "ihex"
    /\ \E i \in 2..Len(DataRecords) :
        /\ RecAddress(DataRecords[i]) = RecAddress(DataRecords[i - 1]) + IHEX_BYTES_PER_LINE
        /\ SeqSum(RecData("ihex", DataRecords[i])) # 0
        /\ RecSum("ihex", DataRecords[i]) # 0

(***************************************************************************)
(* C8.  The terminator.                                                    *)
(***************************************************************************)
\* C8: when the serialization succeeds the output ends with the terminator,
\* no line before it is one and nothing follows it; the hex terminator is
\* :00000001FF, the papertape one ;00, the number of data records before it
\* in 4 digits, and the sum of that number's two bytes in 4 digits
C8_Terminator ==
    result = "true" =>
        LET t == output_file.text
            n == Len(t) - 1
        IN /\ Len(t) >= 1
           /\ output_file.line = <<>>
           /\ \A i \in 1..n : ~IsTerminator(options.format, t[i])
           /\ IF options.format = "ihex"
              THEN t[n + 1] = <<":", "0", "0", "0", "0", "0", "0", "0", "1", "F", "F">>
              ELSE /\ Len(t[n + 1]) = 11
                   /\ SubSeq(t[n + 1], 1, 3) = <<";", "0", "0">>
                   /\ HexVal(SubSeq(t[n + 1], 4, 7)) = n
                   /\ HexVal(SubSeq(t[n + 1], 8, 11)) = ((n \div 256) % 256) + (n % 256)

\* a papertape output of several planes and rows with more than 255 records
C8_Witness ==
    /\ Serialized /\ options.format = "pap"
    /\ color_bits >= 2 /\ y_size >= 2
    /\ Len(output_file.text) > 256

(***************************************************************************)
(* C9.  The capacity of raw_image.                                         *)
(***************************************************************************)
\* C9: parse_image never stores more than MAX_IMAGE_SIZE pixel values
C9_Capacity == Len(raw_image) <= MAX_IMAGE_SIZE

FullRun ==
    output_hex([output_file EXCEPT !.room = 100000, !.sticky = TRUE],
               options.format, options.base_address, converted_image, junk,
               data_size, color_bits, x_size, y_size)
WritesNeeded == 100000 - FullRun.file.room

\* the first write_fn call of output_hex on the stream f
FirstCall(f) ==
    IF FlatMode(x_size)
    THEN write_fn(options.format, f, FlatAddress(options.base_address, 0),
                  [binary |-> converted_image, jb |-> junk, off |-> 0],
                  FlatSize(data_size, color_bits))
    ELSE write_fn(options.format, f, RowAddress(options.base_address, 0, 0),
                  [binary |-> converted_image, jb |-> junk, off |-> 0],
                  (x_size + 7) \div 8)

\* the writes that made a stream's content: a header, one per data byte and
\* a checksum for each finished record, the header and the data bytes of
\* the unfinished one
WritesIn(format, f) ==
    SeqSum([i \in 1..Len(f.text) |-> RecCount(f.text[i]) + 2])
    + (IF f.line = <<>> THEN 0 ELSE 1 + ((Len(f.line) - HeadLen(format)) \div 2))

IsPrefix(s, t) == Len(s) <= Len(t) /\ s = SubSeq(t, 1, Len(s))

\* what C11 says of one call of output_hex whose write number room + 1 fails
WriteFailureAborts ==
    (output_file.room >= 0 /\ output_file.room < WritesNeeded) =>
        /\ result' = "false"
        /\ IsPrefix(output_file'.text, FullRun.file.text)
        /\ Len(output_file'.text) < Len(FullRun.file.text)
        /\ IsPrefix(output_file'.line, FullRun.file.text[Len(output_file'.text) + 1])
        /\ \A i \in 1..Len(output_file'.text) :
                ~IsTerminator(options.format, output_file'.text[i])
        /\ WritesIn(options.format, output_file') = output_file.room
        /\ LET f == [output_file EXCEPT !.opened = TRUE]
               need == 100000 - FirstCall([f EXCEPT !.room = 100000]).file.room
           IN (color_bits >= 1 /\ output_file.room < need) => FirstCall(f).ret = 0

\* C11: when a write inside ihex_write or pap_write fails, the call returns
\* 0, output_hex returns false, and the output holds exactly what the writes
\* before the failed one put there: the finished records and the start of
\* the unfinished one, no record after it and no terminator
C11_WriteFailure == [][Output => WriteFailureAborts]_vars

\* a run in which a write failed in the middle of a record, after finished
\* records, on a device that would have taken the writes after it
C11_Witness ==
    /\ pc = "exit_success" /\ result = "false"
    /\ ~output_file.sticky /\ output_file.room = -1
    /\ Len(output_file.text) >= 1
    /\ Len(output_file.line) > HeadLen(options.format)

(***************************************************************************)
(* C12.  The capacity of the palette.                                      *)
(***************************************************************************)
\* the lines of the palette file sscanf converts three numbers of, and the
\* ones it converts one or two of
IsColourLine(l) == l.m = 3
IsMalformedLine(l) == l.m \in {1, 2}
ColourLines == SelectSeq(palette_file.lines, IsColourLine)
PaletteWasRead ==
    pc # "palette" /\ options.palette /\ open_palette(palette_file, junk)

\* a file of more than MAX_PALETTE_SIZE colours is refused
C12_TooManyRefused ==
    (PaletteWasRead /\ Len(ColourLines) > MAX_PALETTE_SIZE) => ncolors = 0

\* a file of at most MAX_PALETTE_SIZE colours gives them in file order
C12_InOrder ==
    (PaletteWasRead /\ Len(ColourLines) <= MAX_PALETTE_SIZE
        /\ Len(SelectSeq(palette_file.lines, IsMalformedLine)) = 0) =>
        /\ ncolors = Len(ColourLines)
        /\ \A k \in 1..Len(ColourLines) : color_palette[k - 1] = ColourLines[k].c

\* C12: read_palette stores colours only at palette positions below
\* MAX_PALETTE_SIZE; more than MAX_PALETTE_SIZE well-formed colour lines make
\* it return 0 without a store at position MAX_PALETTE_SIZE or above; at
\* most MAX_PALETTE_SIZE well-formed lines and no malformed one give exactly
\* those colours in file order
C12_PaletteCapacity ==
    /\ \A p \in palette_stores : p < MAX_PALETTE_SIZE
    /\ C12_TooManyRefused
    /\ C12_InOrder

(***************************************************************************)
(* C13.  The address field against the integer address.                    *)
(***************************************************************************)
\* the records one write_fn call of output_hex gives, and the number of
\* calls: one per plane in flat mode, one per row of each plane otherwise
RecordsPerCall ==
    CeilDiv(IF FlatMode(x_size) THEN FlatSize(data_size, color_bits) ELSE Stride,
            BytesPerLine(options.format))
WriteCalls == IF FlatMode(x_size) THEN color_bits ELSE color_bits * y_size

\* the address of data record i as an integer: the base, the plane's 8192
\* bytes, the offset of the record's first byte in the plane's window
IntegerAddress(i) ==
    LET c == (i - 1) \div RecordsPerCall
        j == (i - 1) % RecordsPerCall
        p == IF FlatMode(x_size) THEN c ELSE c \div y_size
        y == IF FlatMode(x_size) THEN 0 ELSE c % y_size
    IN options.base_address + p * CARD_MEMORY_SIZE + y * MAX_COL_BYTES
       + j * BytesPerLine(options.format)

\* C13: for every permitted base address and number of planes, the address
\* field of every data record is base + plane*8192 + offset as an integer:
\* the sum is at most 0xFFFF and is not reduced modulo 65536
C13_NoAddressWrap ==
    (Serialized /\ color_bits \in 1..MAX_CARDS) =>
        /\ Len(DataRecords) = WriteCalls * RecordsPerCall
        /\ \A i \in 1..Len(DataRecords) :
            /\ IntegerAddress(i) <= 65535
            /\ RecAddress(DataRecords[i]) = IntegerAddress(i)

====
